---- MODULE Spec2Model ----
(***************************************************************************)
(* Model of the xml-validate command (validator/__main__.py): one          *)
(* invocation of cli, from click's argument parsing through the two calls  *)
(* of xmlFromURL to the xmlschema.validate call and the report.            *)
(*                                                                         *)
(* Text is a sequence of strings.  Data text (arguments, response bodies,  *)
(* file contents) is held one character per element, so that startswith,   *)
(* replace, urlparse and basename are computed as the code computes them;  *)
(* fixed message text is held as whole literals.  The environment (file    *)
(* system, HTTP server, FTP server, the xmlschema library) is chosen       *)
(* nondeterministically.  Colour codes of click.secho are not modelled:    *)
(* click strips them when the output is not a terminal.                    *)
(***************************************************************************)
EXTENDS Integers, Sequences, FiniteSets, TLC

\* ------------------------------------------------------------------ bounds

\* Largest number of positional arguments tried on the command line.
MaxArgs == 3
\* Largest number of option tokens tried on the command line.
MaxOpts == 2
\* Largest number of bytes one RETR callback delivers (ftplib blocksize).
BlockSize == 2

\* ------------------------------------------------------------ text helpers

\* str.startswith("/")
StartsWithSlash(s) == Len(s) > 0 /\ s[1] = "/"

\* s[i..] starts with the text p
HasAt(s, i, p) ==
    /\ i + Len(p) - 1 <= Len(s)
    /\ \A k \in 1..Len(p) : s[i + k - 1] = p[k]

RECURSIVE ReplaceFrom(_, _, _)
\* str.replace(p, ""), scanning from position i: every occurrence is removed
ReplaceFrom(s, i, p) ==
    IF i > Len(s) THEN <<>>
    ELSE IF HasAt(s, i, p) THEN ReplaceFrom(s, i + Len(p), p)
    ELSE <<s[i]>> \o ReplaceFrom(s, i + 1, p)

FileUriPrefix == <<"f", "i", "l", "e", ":", "/", "/">>

\* url.replace("file://", "")
StripFileUri(url) == ReplaceFrom(url, 1, FileUriPrefix)

\* str.lower() on the letters the model uses in schemes
LowerChar(c) ==
    CASE c = "F" -> "f" [] c = "I" -> "i" [] c = "L" -> "l" [] c = "E" -> "e"
      [] c = "H" -> "h" [] c = "T" -> "t" [] c = "P" -> "p" [] c = "S" -> "s"
      [] OTHER -> c

Lower(s) == [i \in 1..Len(s) |-> LowerChar(s[i])]

Letters == {"a", "b", "c", "e", "f", "h", "i", "l", "p", "s", "t", "w",
            "E", "F", "I", "L", "H", "T", "P", "S"}

\* characters urlparse accepts inside a scheme
SchemeChars == Letters \cup {"+", "-", "."}

\* position of the first ":" of s, 0 when there is none
ColonAt(s) ==
    IF \E i \in 1..Len(s) : s[i] = ":"
    THEN CHOOSE i \in 1..Len(s) : s[i] = ":" /\ \A j \in 1..(i - 1) : s[j] # ":"
    ELSE 0

\* urlparse(url).scheme: the text before the first ":" when it starts with a
\* letter and holds scheme characters only, lower-cased; "" otherwise
UrlScheme(url) ==
    LET c == ColonAt(url) IN
    IF c > 1 /\ url[1] \in Letters /\ \A j \in 1..(c - 1) : url[j] \in SchemeChars
    THEN Lower(SubSeq(url, 1, c - 1))
    ELSE <<>>

\* the text after "scheme:" (all of url when there is no scheme)
AfterScheme(url) ==
    IF UrlScheme(url) = <<>> THEN url
    ELSE SubSeq(url, ColonAt(url) + 1, Len(url))

\* first position >= i of s holding "/", Len(s)+1 when there is none
RECURSIVE SlashFrom(_, _)
SlashFrom(s, i) ==
    IF i > Len(s) THEN Len(s) + 1
    ELSE IF s[i] = "/" THEN i
    ELSE SlashFrom(s, i + 1)

\* urlparse(url).netloc: what follows "//" up to the next "/"
UrlNetloc(url) ==
    LET r == AfterScheme(url) IN
    IF HasAt(r, 1, <<"/", "/">>) THEN SubSeq(r, 3, SlashFrom(r, 3) - 1) ELSE <<>>

\* position of the last "/" of s, 0 when there is none
LastSlash(s) ==
    IF \E i \in 1..Len(s) : s[i] = "/"
    THEN CHOOSE i \in 1..Len(s) : s[i] = "/" /\ \A j \in (i + 1)..Len(s) : s[j] # "/"
    ELSE 0

\* click.format_filename(name, shorten=True): os.path.basename
FormatFilename(name) == SubSeq(name, LastSlash(name) + 1, Len(name))

\* the process working directory
Cwd == <<"/", "w">>

RECURSIVE PathParts(_)
\* the components pathlib keeps of a path text: the pieces between "/",
\* without the empty ones and the "." ones (".." is kept)
PathParts(s) ==
    IF s = <<>> THEN <<>>
    ELSE LET n == SlashFrom(s, 1)
             head == SubSeq(s, 1, n - 1)
             rest == SubSeq(s, n + 1, Len(s))
         IN (IF head \in {<<>>, <<".">>} THEN <<>> ELSE <<head>>) \o PathParts(rest)

RECURSIVE JoinParts(_)
\* "/".join(parts)
JoinParts(parts) ==
    IF parts = <<>> THEN <<>>
    ELSE IF Len(parts) = 1 THEN parts[1]
    ELSE parts[1] \o <<"/">> \o JoinParts(Tail(parts))

\* the root pathlib gives a POSIX path: "//" for exactly two leading
\* slashes, "/" for one or for three and more, none for a relative path
PathRoot(s) ==
    IF HasAt(s, 1, <<"/", "/">>) /\ ~HasAt(s, 1, <<"/", "/", "/">>) THEN <<"/", "/">>
    ELSE IF StartsWithSlash(s) THEN <<"/">>
    ELSE <<>>

\* str(Path(p).absolute()): the normalised text, under the working
\* directory when it is relative
Absolute(p) ==
    IF PathRoot(p) # <<>> THEN PathRoot(p) \o JoinParts(PathParts(p))
    ELSE IF PathParts(p) = <<>> THEN Cwd
    ELSE Cwd \o <<"/">> \o JoinParts(PathParts(p))

\* ------------------------------------------------------------ the inputs

LocalAbs == <<"/", "w", "/", "a">>
LocalRel == <<"b">>
LocalDouble == <<"/", "w", "/", "/", "a">>
LocalDotSlash == <<".", "/", "b", "/">>
FileUri == <<"f", "i", "l", "e", ":", "/", "/", "/", "w", "/", "a">>
FileUriInner ==
    <<"f", "i", "l", "e", ":", "/", "/", "/", "w", "/",
      "f", "i", "l", "e", ":", "/", "/", "a">>
FileUriUpper == <<"F", "I", "L", "E", ":", "/", "/", "/", "w", "/", "a">>
HttpUrl == <<"h", "t", "t", "p", ":", "/", "/", "h", "/", "a">>
HttpsUrl == <<"h", "t", "t", "p", "s", ":", "/", "/", "h", "/", "a">>
HttpNoHost == <<"h", "t", "t", "p", ":", "a">>
FtpUrl == <<"f", "t", "p", ":", "/", "/", "h", "/", "a">>
FtpNoHost == <<"f", "t", "p", ":", "a">>
OtherScheme == <<"c", ":", "a">>

\* the command-line arguments tried
Args == {LocalAbs, LocalRel, LocalDouble, LocalDotSlash, FileUri, FileUriInner,
         FileUriUpper, HttpUrl, HttpsUrl,
         HttpNoHost, FtpUrl, FtpNoHost, OtherScheme, <<>>}

\* the regular files that may exist (absolute paths)
Files == {LocalAbs, Cwd \o <<"/">> \o LocalRel}

\* text a server may hold: nothing, an XML document, a path-like line
Bodies == {<<>>, <<"<", "a", "/", ">">>, LocalAbs}

\* Content-Type header values, as the parts the substring test can find
CTypes == {<<"application/", "xml">>, <<"text/plain", "; charset=utf-8">>,
           <<"text/html">>}

Statuses == {200, 201, 304, 404, 500}

\* the ctype of a response that carries no Content-Type header
NoCType == <<"<no header>">>

\* an HTTP response: status line, Content-Type header (if any), body
Responses ==
    [status : Statuses, ctype : CTypes \cup {NoCType}, body : Bodies]

\* bytes an FTP server may deliver: nothing, "<a/>", "e-acute", a lone 0xFF
RemoteFiles == {<<>>, <<60, 97, 47, 62>>, <<195, 169>>, <<255>>}

\* ----------------------------------------------------------- the messages

\* click.echo(message): the message and a line break
Echo(o, msg) == o \o msg \o <<"\n">>

\* requests.codes.ok
CodesOk == 200

\* Response.raise_for_status(): the HTTPError text, <<>> when none is raised
RaiseForStatus(resp, url) ==
    IF 400 <= resp.status /\ resp.status < 500
    THEN <<ToString(resp.status), " Client Error: ", "<reason>", " for url: ">> \o url
    ELSE IF 500 <= resp.status /\ resp.status < 600
    THEN <<ToString(resp.status), " Server Error: ", "<reason>", " for url: ">> \o url
    ELSE <<>>

\* x in resp.headers["Content-Type"]
InHeader(x, ctype) == \E i \in 1..Len(ctype) : ctype[i] = x

\* the cnt_type list of _process_http_reponse
CntType == {"text/plain", "xml"}

NotXmlError(url) ==
    <<"Error: Content of the URL (">> \o url \o
    <<")\n", "is not in XML format. ", "Make sure the URL is correct.\n">>

\* _process_http_reponse, given the response requests.get produced: what it
\* returns or raises
ProcessHttpResponse(url, scheme, resp) ==
    IF resp.status # CodesOk
    THEN IF RaiseForStatus(resp, url) # <<>>
         THEN [kind |-> "HTTPError", text |-> RaiseForStatus(resp, url)]
         ELSE [kind |-> "return", text |-> <<>>]
    ELSE IF scheme \in {<<"h", "t", "t", "p">>, <<"h", "t", "t", "p", "s">>}
            /\ resp.ctype = NoCType
    THEN [kind |-> "KeyError", text |-> <<"'content-type'">>]
    ELSE IF scheme \in {<<"h", "t", "t", "p">>, <<"h", "t", "t", "p", "s">>}
            /\ ~\E x \in CntType : InHeader(x, resp.ctype)
    THEN [kind |-> "Exception", text |-> NotXmlError(url)]
    ELSE [kind |-> "return", text |-> resp.body]

\* requests.get(url) refuses the text as a URL (MissingSchema, InvalidSchema,
\* InvalidURL: all ValueError) instead of sending a request
RequestsRejects(url) ==
    \/ UrlScheme(url) \notin {<<"h", "t", "t", "p">>, <<"h", "t", "t", "p", "s">>}
    \/ UrlNetloc(url) = <<>>

HttpErrorMsg(errtext, url) ==
    errtext \o url \o <<"\nMake sure the URL is correct.\n">>

FtpErrorMsg(errtext, url) ==
    errtext \o <<" (">> \o url \o <<")\nMake sure the URL is correct.\n">>

PathErrorMsg(arg_type, url) ==
    <<"Error: Invalid value for ", arg_type, "\nPath ">> \o url \o
    <<" does not exist.\n">>

\* ------------------------------------------------- BytesIO and decoding

\* BytesIO(): an empty buffer with the position at its start
NewBytesIO == [buf |-> <<>>, pos |-> 0]

\* BytesIO.write(b): b is put at the position, which moves past it
BytesWrite(r, b) ==
    [buf |-> SubSeq(r.buf, 1, r.pos) \o b
               \o SubSeq(r.buf, r.pos + Len(b) + 1, Len(r.buf)),
     pos |-> r.pos + Len(b)]

\* BytesIO.read(): the bytes from the position to the end
BytesRead(r) == SubSeq(r.buf, r.pos + 1, Len(r.buf))

RECURSIVE RetrBinary(_, _)
\* FTP.retrbinary(cmd, r.write): the callback is called once per block
RetrBinary(r, data) ==
    IF data = <<>> THEN r
    ELSE LET n == IF Len(data) < BlockSize THEN Len(data) ELSE BlockSize IN
         RetrBinary(BytesWrite(r, SubSeq(data, 1, n)),
                    SubSeq(data, n + 1, Len(data)))

\* the character of an ASCII byte
Chr(b) ==
    CASE b = 60 -> "<" [] b = 62 -> ">" [] b = 47 -> "/" [] b = 97 -> "a"
      [] OTHER -> "?"

\* the character of a two-byte sequence
TwoByteChr(b1, b2) == IF b1 = 195 /\ b2 = 169 THEN "e-acute" ELSE "?"

RECURSIVE Utf8Decode(_)
\* bytes.decode("UTF-8"): [ok, text]; ok is FALSE for UnicodeDecodeError
Utf8Decode(bs) ==
    IF bs = <<>> THEN [ok |-> TRUE, text |-> <<>>]
    ELSE IF bs[1] < 128
    THEN LET rest == Utf8Decode(Tail(bs)) IN
         [ok |-> rest.ok, text |-> <<Chr(bs[1])>> \o rest.text]
    ELSE IF bs[1] >= 194 /\ bs[1] <= 223 /\ Len(bs) >= 2
            /\ bs[2] >= 128 /\ bs[2] <= 191
    THEN LET rest == Utf8Decode(SubSeq(bs, 3, Len(bs))) IN
         [ok |-> rest.ok, text |-> <<TwoByteChr(bs[1], bs[2])>> \o rest.text]
    ELSE [ok |-> FALSE, text |-> <<>>]

\* --------------------------------------------------- the validator's results

\* what xmlschema.validate does: it returns, or raises an exception of one
\* of these classes (XMLSchemaParseError stands for the XMLSchemaException
\* subclasses other than the validation error, LookupError for the
\* exceptions outside the library's hierarchy, such as the one ElementTree
\* raises for a document that declares an unknown encoding)
Outcomes == {"valid", "XMLSchemaValidationError", "ParseError",
             "XMLSchemaParseError", "LookupError"}

\* isinstance(exc, cls) for the classes the except clauses name
IsInstance(exc, cls) ==
    \/ exc = cls
    \/ cls = "XMLSchemaException"
       /\ exc \in {"XMLSchemaValidationError", "XMLSchemaParseError"}

\* str(err) of a validator exception
ErrText(exc) ==
    IF exc = "XMLSchemaValidationError" THEN <<"failed validating ", "<reason>">>
    ELSE <<"<", exc, " detail>">>

\* the except clauses of cli's second try, in their order
ExceptClauses == <<"XMLSchemaValidationError", "ParseError", "XMLSchemaException">>

\* Handler with the XMLSchemaException clause written first
HandlerGenericFirst(exc) ==
    IF IsInstance(exc, "XMLSchemaException") THEN "XMLSchemaException"
    ELSE IF IsInstance(exc, "ParseError") THEN "ParseError"
    ELSE "none"

\* the clause that handles exc: the first one it is an instance of, "none"
\* when no clause matches and the exception leaves cli
Handler(exc) ==
    IF \E i \in 1..Len(ExceptClauses) : IsInstance(exc, ExceptClauses[i])
    THEN ExceptClauses[CHOOSE i \in 1..Len(ExceptClauses) :
             /\ IsInstance(exc, ExceptClauses[i])
             /\ \A j \in 1..(i - 1) : ~IsInstance(exc, ExceptClauses[j])]
    ELSE "none"

\* the first line of the valid/invalid report
ReportHead(from_url, url, file) ==
    IF from_url
    THEN <<"The XML from the URL:\n">> \o url
    ELSE <<"The XML file: ">> \o FormatFilename(file)

GenericNotice ==
    <<"\nValidation ran into an unexpected error.",
      " Run command with --verbose option for more details\n">>

FaultyNotice == <<"Faulty XML or XSD file was given.\n">>

\* what cli prints after the validator call, appended to o
Report(o, outcome, verb, from_url, url, file) ==
    IF outcome = "valid"
    THEN Echo(Echo(o, ReportHead(from_url, url, file)), <<"is valid.\n">>)
    ELSE IF Handler(outcome) = "XMLSchemaValidationError"
    THEN LET n == Echo(Echo(o, ReportHead(from_url, url, file)), <<"is invalid.\n">>)
         IN IF verb THEN Echo(Echo(n, <<"Error:">>), ErrText(outcome)) ELSE n
    ELSE IF Handler(outcome) = "ParseError"
    THEN LET n == Echo(o, FaultyNotice)
         IN IF verb THEN Echo(n, <<"Error: ">> \o ErrText(outcome)) ELSE n
    ELSE IF Handler(outcome) = "XMLSchemaException"
    THEN IF ~verb THEN Echo(o, GenericNotice)
         ELSE Echo(o, <<"Error: ">> \o ErrText(outcome))
    ELSE o

\* the exit code after the validator call: 0 when cli returns, 1 when the
\* exception leaves cli
ExitAfterValidate(outcome) ==
    IF outcome = "valid" \/ Handler(outcome) # "none" THEN 0 ELSE 1

\* ---------------------------------------------------------------- the state

VARIABLES
    argv,           \* the positional arguments
    opts,           \* the option tokens of the command line, in their order
    verbose,        \* the value click binds to the -v/--verbose flag
    fs,             \* the regular files that exist
    pc,             \* where the invocation is
    cur,            \* the arg_type of the resolution under way
    out,            \* standard output
    err,            \* standard error (click's usage errors)
    exit_code,      \* -1 while running
    xml_file, schema_file, requested_url, xml_from_url,   \* cli's locals
    conns,          \* the FTP connections opened so far: "open" or "closed"
    log,            \* the calls made, in order
    res,            \* per arg_type: what its resolution ended as
    last_http,      \* the last response received and what became of it
    last_ftp,       \* the last completed RETR and what was returned
    outcome         \* what the validator call did ("none" before it)

vars == <<argv, opts, verbose, fs, pc, cur, out, err, exit_code, xml_file,
          schema_file, requested_url, xml_from_url, conns, log, res,
          last_http, last_ftp, outcome>>

\* the arguments tried where only their number matters
UsageArgs == {LocalAbs, HttpUrl}

\* the command lines tried: every pair of Args, and shorter and longer lists
ArgLists ==
    [1..2 -> Args] \cup UNION {[1..n -> UsageArgs] : n \in (0..MaxArgs) \ {2}}

NoHttp ==
    [url |-> <<>>, seen |-> FALSE,
     resp |-> [status |-> 0, ctype |-> <<"<no header>">>, body |-> <<>>],
     result |-> [kind |-> "none", content |-> <<>>, url |-> <<>>, msg |-> <<>>]]

NoFtp == [seen |-> FALSE, data |-> <<>>, content |-> <<>>]

\* the option tokens tried: the two names of the flag, click's --help, an
\* option the command does not declare, a value given to the flag
OptTokens == {"-v", "--verbose", "--help", "-x", "--verbose=x"}

\* the option tokens of one command line (click lets them stand anywhere
\* among the positional arguments)
OptLists == UNION {[1..n -> OptTokens] : n \in 0..MaxOpts}

Init ==
    /\ argv \in ArgLists
    /\ opts \in OptLists
    /\ verbose = FALSE
    /\ fs \in SUBSET Files
    /\ pc = "start"
    /\ cur = "XML_FILE"
    /\ out = <<>>
    /\ err = <<>>
    /\ exit_code = -1
    /\ xml_file = <<>>
    /\ schema_file = <<>>
    /\ requested_url = <<>>
    /\ xml_from_url = FALSE
    /\ conns = <<>>
    /\ log = <<>>
    /\ res = [t \in {"XML_FILE", "SCHEMA_FILE"} |-> "none"]
    /\ last_http = NoHttp
    /\ last_ftp = NoFtp
    /\ outcome = "none"

\* ------------------------------------------------------ click's parsing

\* the parameters click.argument declares, in their order
Params == <<"XML_FILE", "SCHEMA_FILE">>

RECURSIVE JoinArgs(_)
\* " ".join(args)
JoinArgs(args) ==
    IF args = <<>> THEN <<>>
    ELSE IF Len(args) = 1 THEN args[1]
    ELSE args[1] \o <<" ">> \o JoinArgs(Tail(args))

\* ClickUsage without the check for extra arguments
ClickUsageNoExtra(args) ==
    IF Len(args) < Len(Params)
    THEN <<"Missing argument '", Params[Len(args) + 1], "'.">>
    ELSE <<>>

\* the usage error click raises for the positional arguments, <<>> when
\* they bind to the two parameters
ClickUsage(args) ==
    IF Len(args) < Len(Params)
    THEN <<"Missing argument '", Params[Len(args) + 1], "'.">>
    ELSE IF Len(args) > Len(Params)
    THEN <<"Got unexpected extra argument">>
         \o (IF Len(args) - Len(Params) > 1 THEN <<"s">> ELSE <<>>)
         \o <<" (">> \o JoinArgs(SubSeq(args, Len(Params) + 1, Len(args))) \o <<")">>
    ELSE <<>>

\* what UsageError.show writes: the usage header only when the error
\* carries the command's context
UsageText(msg, ctx) ==
    (IF ctx
     THEN <<"Usage: cli [OPTIONS] XML_FILE SCHEMA_FILE\n",
            "Try 'cli --help' for help.\n", "\n">>
     ELSE <<>>)
    \o <<"Error: ">> \o msg \o <<"\n">>

\* the names of the flag declared by click.option
FlagNames == {"-v", "--verbose"}

\* the first option token click's parser refuses, 0 when there is none
BadOptAt(os) ==
    IF \E i \in 1..Len(os) : os[i] \notin FlagNames \cup {"--help"}
    THEN CHOOSE i \in 1..Len(os) :
             /\ os[i] \notin FlagNames \cup {"--help"}
             /\ \A j \in 1..(i - 1) : os[j] \in FlagNames \cup {"--help"}
    ELSE 0

\* what click makes of the command line: the parser's error for a refused
\* option (raised without a context when a value is given to the flag), else the help page for --help (an eager option), else the usage
\* error of the positional arguments, else the call of cli
ClickOutcome(os, args) ==
    IF BadOptAt(os) # 0
    THEN IF os[BadOptAt(os)] = "--verbose=x"
         THEN [kind |-> "usage", ctx |-> FALSE,
               msg |-> <<"Option '--verbose' does not take a value.">>]
         ELSE [kind |-> "usage", ctx |-> TRUE,
               msg |-> <<"No such option: ", os[BadOptAt(os)]>>]
    ELSE IF \E i \in 1..Len(os) : os[i] = "--help"
    THEN [kind |-> "help", ctx |-> TRUE, msg |-> <<>>]
    ELSE IF ClickUsage(args) # <<>>
    THEN [kind |-> "usage", ctx |-> TRUE, msg |-> ClickUsage(args)]
    ELSE [kind |-> "run", ctx |-> TRUE, msg |-> <<>>]

\* the page --help prints
HelpText ==
    <<"Usage: cli [OPTIONS] XML_FILE SCHEMA_FILE\n", "\n",
      "  Validate an XML against an XSD SCHEMA.\n", "\n", "Options:\n",
      "  -v, --verbose  Verbose printout for XML validation errors.\n",
      "  --help         Show this message and exit.\n">>

\* click parses the command line and either stops with a usage error
\* (exit code 2), prints the help (exit code 0), or enters cli with the two
\* arguments and the flag bound
ClickParse ==
    /\ pc = "start"
    /\ LET c == ClickOutcome(opts, argv) IN
       IF c.kind = "usage"
       THEN /\ err' = UsageText(c.msg, c.ctx)
            /\ exit_code' = 2
            /\ pc' = "done"
            /\ UNCHANGED <<out, verbose, xml_file, schema_file>>
       ELSE IF c.kind = "help"
       THEN /\ out' = HelpText
            /\ exit_code' = 0
            /\ pc' = "done"
            /\ UNCHANGED <<err, verbose, xml_file, schema_file>>
       ELSE /\ xml_file' = argv[1]
            /\ schema_file' = argv[2]
            /\ verbose' = \E i \in 1..Len(opts) : opts[i] \in FlagNames
            /\ pc' = "resolve"
            /\ UNCHANGED <<out, err, exit_code>>
    /\ UNCHANGED <<argv, opts, fs, cur, requested_url, xml_from_url,
                   conns, log, res, last_http, last_ftp, outcome>>

\* ------------------------------------------------------------ the resolver

\* the argument xmlFromURL is called with
CurArg == IF cur = "XML_FILE" THEN xml_file ELSE schema_file

Returns(content, url) ==
    [kind |-> "return", content |-> content, url |-> url, msg |-> <<>>]

Raises(msg) ==
    [kind |-> "raise", content |-> <<>>, url |-> <<>>, msg |-> msg]

\* the except ValueError branch of xmlFromURL
LocalPath(url, scheme, arg_type, files) ==
    LET u == IF scheme = <<"f", "i", "l", "e">> THEN StripFileUri(url) ELSE url IN
    IF Absolute(u) \notin files
    THEN Raises(PathErrorMsg(arg_type, u))
    ELSE Returns(Absolute(u), u)

\* xmlFromURL's else branch and its HTTPError handler, given the response
XmlFromHttp(url, scheme, resp) ==
    LET r == ProcessHttpResponse(url, scheme, resp) IN
    IF r.kind = "return" THEN Returns(r.text, url)
    ELSE IF r.kind = "HTTPError" THEN Raises(HttpErrorMsg(r.text, url))
    ELSE Raises(r.text)

\* what the ftp branch makes of the bytes RETR delivered: r.read() after
\* the transfer wrote into r, decoded
FtpContent(data) == Utf8Decode(BytesRead(RetrBinary(NewBytesIO, data)))

\* cli, after xmlFromURL returned (content, url)
CliOnReturn(content, url) ==
    /\ IF cur = "XML_FILE"
       THEN /\ xml_file' = content
            /\ requested_url' = url
            /\ xml_from_url' = ~StartsWithSlash(content)
            /\ cur' = "SCHEMA_FILE"
            /\ pc' = "resolve"
            /\ UNCHANGED schema_file
       ELSE /\ schema_file' = (IF content # <<>> THEN content ELSE schema_file)
            /\ pc' = "validate"
            /\ UNCHANGED <<xml_file, requested_url, xml_from_url, cur>>
    /\ UNCHANGED <<out, exit_code>>

\* CliOnError without the return: cli goes on to its second try
CliOnErrorNoReturn(msg) ==
    /\ out' = Echo(out, msg)
    /\ pc' = "validate"
    /\ UNCHANGED <<exit_code, xml_file, schema_file, requested_url,
                   xml_from_url, cur>>

\* cli's except Exception clause: print the error and return
CliOnError(msg) ==
    /\ out' = Echo(out, msg)
    /\ exit_code' = 0
    /\ pc' = "done"
    /\ UNCHANGED <<xml_file, schema_file, requested_url, xml_from_url, cur>>

\* xmlFromURL ends with result r after making the calls evs
Finish(r, evs) ==
    /\ IF r.kind = "return" THEN CliOnReturn(r.content, r.url) ELSE CliOnError(r.msg)
    /\ res' = [res EXCEPT ![cur] = r.kind]
    /\ log' = log \o evs \o (IF r.kind = "raise" THEN <<"echo_error">> ELSE <<>>)

SchemeFile == <<"f", "i", "l", "e">>
SchemeFtp == <<"f", "t", "p">>

\* a file: URI, or text requests.get refuses: the path branch
ResolveLocal ==
    /\ pc = "resolve"
    /\ \/ UrlScheme(CurArg) = SchemeFile
       \/ UrlScheme(CurArg) # SchemeFtp /\ RequestsRejects(CurArg)
    /\ Finish(LocalPath(CurArg, UrlScheme(CurArg), cur, fs), <<"is_file">>)
    /\ UNCHANGED <<argv, opts, verbose, fs, err, conns, last_http, last_ftp, outcome>>

\* an http(s) URL: one GET, answered by some response
HttpGet ==
    /\ pc = "resolve"
    /\ UrlScheme(CurArg) \notin {SchemeFile, SchemeFtp}
    /\ ~RequestsRejects(CurArg)
    /\ \E resp \in Responses :
         LET r == XmlFromHttp(CurArg, UrlScheme(CurArg), resp) IN
         /\ Finish(r, <<"GET">>)
         /\ last_http' = [url |-> CurArg, seen |-> TRUE, resp |-> resp, result |-> r]
    /\ UNCHANGED <<argv, opts, verbose, fs, err, conns, last_ftp, outcome>>

\* an http(s) URL whose GET gets no response (requests' ConnectionError)
HttpGetFails ==
    /\ pc = "resolve"
    /\ UrlScheme(CurArg) \notin {SchemeFile, SchemeFtp}
    /\ ~RequestsRejects(CurArg)
    /\ Finish(Raises(<<"<ConnectionError>">>), <<"GET">>)
    /\ UNCHANGED <<argv, opts, verbose, fs, err, conns, last_http, last_ftp, outcome>>

\* ftplib.FTP(host) with an empty host connects to nothing, and login()
\* then fails on the missing socket (AttributeError)
FtpNoHostLogin ==
    /\ pc = "resolve"
    /\ UrlScheme(CurArg) = SchemeFtp
    /\ UrlNetloc(CurArg) = <<>>
    /\ Finish(Raises(<<"'NoneType' object has no attribute 'sendall'">>),
              <<"ftp_login">>)
    /\ UNCHANGED <<argv, opts, verbose, fs, err, conns, last_http, last_ftp, outcome>>

\* ftplib.FTP(host) connects
FtpConnect ==
    /\ pc = "resolve"
    /\ UrlScheme(CurArg) = SchemeFtp
    /\ UrlNetloc(CurArg) # <<>>
    /\ conns' = Append(conns, "open")
    /\ log' = Append(log, "ftp_connect")
    /\ pc' = "ftp_login"
    /\ UNCHANGED <<argv, opts, verbose, fs, cur, out, err, exit_code, xml_file,
                   schema_file, requested_url, xml_from_url, res, last_http,
                   last_ftp, outcome>>

\* ftplib.FTP(host) cannot connect (OSError): no connection exists
FtpConnectFails ==
    /\ pc = "resolve"
    /\ UrlScheme(CurArg) = SchemeFtp
    /\ UrlNetloc(CurArg) # <<>>
    /\ Finish(Raises(<<"<OSError>">>), <<"ftp_connect">>)
    /\ UNCHANGED <<argv, opts, verbose, fs, err, conns, last_http, last_ftp, outcome>>

\* ftp.login() succeeds
FtpLogin ==
    /\ pc = "ftp_login"
    /\ log' = Append(log, "ftp_login")
    /\ pc' = "ftp_retr"
    /\ UNCHANGED <<argv, opts, verbose, fs, cur, out, err, exit_code, xml_file,
                   schema_file, requested_url, xml_from_url, conns, res,
                   last_http, last_ftp, outcome>>

\* ftp.login() is refused (ftplib.error_perm): the except ftplib.Error
\* clause raises the message; ftp.close() is not reached
FtpLoginFails ==
    /\ pc = "ftp_login"
    /\ Finish(Raises(FtpErrorMsg(<<"530 Login incorrect.">>, CurArg)),
              <<"ftp_login">>)
    /\ UNCHANGED <<argv, opts, verbose, fs, err, conns, last_http, last_ftp, outcome>>

\* ftp.retrbinary succeeds: lines 51-57, or the except ValueError branch
\* when the decoding fails
FtpRetr ==
    /\ pc = "ftp_retr"
    /\ \E data \in RemoteFiles :
         LET dec == FtpContent(data) IN
         IF dec.ok
         THEN /\ conns' = [conns EXCEPT ![Len(conns)] = "closed"]
              /\ Finish(Returns(dec.text, CurArg),
                        <<"ftp_retr", "ftp_close">>)
              /\ last_ftp' = [seen |-> TRUE, data |-> data, content |-> dec.text]
         ELSE /\ Finish(LocalPath(CurArg, UrlScheme(CurArg), cur, fs),
                        <<"ftp_retr", "is_file">>)
              /\ UNCHANGED <<conns, last_ftp>>
    /\ UNCHANGED <<argv, opts, verbose, fs, err, last_http, outcome>>

\* the RETR command is refused (ftplib.error_perm): the except ftplib.Error
\* clause raises the message; ftp.close() is not reached
FtpRetrFails ==
    /\ pc = "ftp_retr"
    /\ Finish(Raises(FtpErrorMsg(<<"550 Failed to open file.">>, CurArg)),
              <<"ftp_retr">>)
    /\ UNCHANGED <<argv, opts, verbose, fs, err, conns, last_http, last_ftp, outcome>>

\* ------------------------------------------------------------ the reporter

\* cli's second try: the validator call and the report of what it did
Validate ==
    /\ pc = "validate"
    /\ \E o \in Outcomes :
         /\ outcome' = o
         /\ out' = Report(out, o, verbose, xml_from_url, requested_url, xml_file)
         /\ exit_code' = ExitAfterValidate(o)
    /\ log' = Append(log, "validate")
    /\ pc' = "done"
    /\ UNCHANGED <<argv, opts, verbose, fs, cur, err, xml_file, schema_file,
                   requested_url, xml_from_url, conns, res, last_http,
                   last_ftp>>

Next ==
    \/ ClickParse
    \/ ResolveLocal
    \/ HttpGet
    \/ HttpGetFails
    \/ FtpNoHostLogin
    \/ FtpConnect
    \/ FtpConnectFails
    \/ FtpLogin
    \/ FtpLoginFails
    \/ FtpRetr
    \/ FtpRetrFails
    \/ Validate

Spec == Init /\ [][Next]_vars

\* ================================================================ claims

\* seq holds the text sub somewhere
Contains(seq, sub) == \E i \in 1..(Len(seq) + 1) : HasAt(seq, i, sub)

\* a is an http://, https:// or ftp:// URL
IsRemoteUrl(a) ==
    /\ UrlScheme(a) \in {<<"h", "t", "t", "p">>, <<"h", "t", "t", "p", "s">>, SchemeFtp}
    /\ HasAt(AfterScheme(a), 1, <<"/", "/">>)

\* a has no scheme or is a file: URI
IsLocalKind(a) == UrlScheme(a) \in {<<>>, SchemeFile}

\* a without a leading "file://"
StripPrefix(a) ==
    IF HasAt(a, 1, FileUriPrefix) THEN SubSeq(a, Len(FileUriPrefix) + 1, Len(a)) ELSE a

\* the notices of the reporter
Notices == {"is valid.\n", "is invalid.\n", "Faulty XML or XSD file was given.\n"}

NoticeCount == Cardinality({i \in DOMAIN out : out[i] \in Notices})

\* the run is over
Done == pc = "done"

\* click called cli: the command line raised no usage error and asked for
\* no help page
CliInvoked == ClickOutcome(opts, argv).kind = "run"

\* C1: an invocation of cli with exactly two positional arguments ends with
\* exit code 0, whatever the resolver and the validator do.
C1_ExitZero == (Done /\ CliInvoked /\ Len(argv) = 2) => exit_code = 0

\* C1, for what the code does catch: the exit code is 0 after every resolver
\* error and after every validator result that an except clause names.
C1_ExitZeroCaught ==
    (Done /\ CliInvoked /\ Len(argv) = 2 /\ outcome # "LookupError")
    => exit_code = 0

\* C2: local XML file, local schema, no -v: the whole output is the valid
\* notice, the invalid notice or the faulty-file notice according to the
\* validator's result, exactly one notice is printed, and the invalid result
\* is not reported with the generic message.
C2_LocalReport ==
    (/\ Done
     /\ Len(argv) = 2
     /\ ~verbose
     /\ ~IsRemoteUrl(argv[1]) /\ ~IsRemoteUrl(argv[2])
     /\ outcome \in {"valid", "XMLSchemaValidationError", "ParseError"})
    => /\ outcome = "valid" =>
            out = <<"The XML file: ">> \o FormatFilename(Absolute(StripPrefix(argv[1])))
                  \o <<"\n", "is valid.\n", "\n">>
       /\ outcome = "XMLSchemaValidationError" =>
            out = <<"The XML file: ">> \o FormatFilename(Absolute(StripPrefix(argv[1])))
                  \o <<"\n", "is invalid.\n", "\n">>
       /\ outcome = "ParseError" =>
            out = <<"Faulty XML or XSD file was given.\n", "\n">>
       /\ NoticeCount = 1
       /\ ~Contains(out, GenericNotice)

C2_Witness ==
    /\ Done
    /\ ~verbose
    /\ Len(argv) = 2
    /\ argv[1] = LocalRel /\ argv[2] = FileUri
    /\ outcome = "XMLSchemaValidationError"
    /\ Contains(out, <<"is invalid.\n">>)

\* the report is in the URL form, naming the argument
UrlForm == HasAt(out, 1, <<"The XML from the URL:\n">> \o argv[1] \o <<"\n">>)

\* the report is in the file form
FileForm == HasAt(out, 1, <<"The XML file: ">>)

\* C3: the valid/invalid report is in the URL form exactly when the XML
\* argument is an http(s):// or ftp:// URL and in the file form exactly when
\* it is a local path or file:// URI, whatever the URL returns.
C3_UrlFormIffUrl ==
    (Done /\ outcome \in {"valid", "XMLSchemaValidationError"})
    => /\ UrlForm <=> IsRemoteUrl(argv[1])
       /\ FileForm <=> ~IsRemoteUrl(argv[1])

\* the validator's detail text is in the output
DetailPrinted == Contains(out, ErrText(outcome))

\* C4: for the three non-success validator results the detail is printed
\* exactly when -v is set: after the invalid notice and an "Error:" line,
\* after the faulty-file notice, or as the raw error.
C4_DetailIffVerbose ==
    (Done /\ outcome \notin {"none", "valid"})
    => /\ DetailPrinted <=> verbose
       /\ (verbose /\ outcome = "XMLSchemaValidationError") =>
            Contains(out, <<"is invalid.\n", "\n", "Error:", "\n">> \o ErrText(outcome))
       /\ (verbose /\ outcome = "ParseError") =>
            Contains(out, FaultyNotice \o <<"\n", "Error: ">> \o ErrText(outcome))
       /\ (verbose /\ outcome \notin {"XMLSchemaValidationError", "ParseError"}) =>
            out = <<"Error: ">> \o ErrText(outcome) \o <<"\n">>

\* C4, for the exceptions an except clause names.
C4_DetailIffVerboseCaught ==
    outcome # "LookupError" => C4_DetailIffVerbose

\* the response's Content-Type is text/plain or contains "xml"
XmlCType(resp) ==
    resp.ctype # NoCType /\ \E x \in {"text/plain", "xml"} : InHeader(x, resp.ctype)

\* C5: the result of an http(s) resolution is a function of status and
\* Content-Type: non-2xx fails with the HTTP-error message, 2xx with a
\* Content-Type that is neither text/plain nor contains "xml" fails with the
\* "is not in XML format" error, every other 2xx returns the body and the
\* argument.
C5_HttpResult ==
    last_http.seen =>
      LET resp == last_http.resp
          r == last_http.result
          ok2xx == 200 <= resp.status /\ resp.status < 300
      IN /\ ~ok2xx =>
              /\ r.kind = "raise"
              /\ Contains(r.msg, last_http.url \o <<"\nMake sure the URL is correct.\n">>)
         /\ (ok2xx /\ resp.ctype # NoCType /\ ~XmlCType(resp)) =>
              r = Raises(NotXmlError(last_http.url))
         /\ (ok2xx /\ XmlCType(resp)) =>
              r = Returns(resp.body, last_http.url)

\* C5, as the code has it: status 200 is the only one whose body is
\* returned; 4xx and 5xx fail with the HTTP-error message; every other
\* status returns the empty text.
C5_HttpResult200 ==
    last_http.seen =>
      LET resp == last_http.resp
          r == last_http.result
      IN /\ resp.status >= 400 =>
              /\ r.kind = "raise"
              /\ Contains(r.msg, last_http.url \o <<"\nMake sure the URL is correct.\n">>)
         /\ (resp.status < 400 /\ resp.status # 200) => r = Returns(<<>>, last_http.url)
         /\ (resp.status = 200 /\ resp.ctype # NoCType /\ ~XmlCType(resp)) =>
              r = Raises(NotXmlError(last_http.url))
         /\ (resp.status = 200 /\ XmlCType(resp)) =>
              r = Returns(resp.body, last_http.url)

\* C6: no FTP connection is open once xmlFromURL has returned or raised.
C6_FtpClosed ==
    pc \notin {"ftp_login", "ftp_retr"} =>
      \A i \in DOMAIN conns : conns[i] = "closed"

\* C6, the successful path: connect, login, retrieval and close are each
\* called once, in that order, and the connection ends closed.
C6_FtpClosedOnSuccess ==
    last_ftp.seen =>
      /\ Contains(log, <<"ftp_connect", "ftp_login", "ftp_retr", "ftp_close">>)
      /\ (pc \notin {"ftp_login", "ftp_retr"} /\ Len(conns) = 1) => conns[1] = "closed"

\* C7: after a successful login and retrieval the content returned is the
\* UTF-8 decoding of all the bytes the transfer delivered.
C7_FtpContent ==
    (last_ftp.seen /\ Utf8Decode(last_ftp.data).ok) =>
      last_ftp.content = Utf8Decode(last_ftp.data).text

\* the argument given for the parameter t
ArgOf(t) == IF t = "XML_FILE" THEN argv[1] ELSE argv[2]

\* the value cli holds for the parameter t
ValueOf(t) == IF t = "XML_FILE" THEN xml_file ELSE schema_file

\* C8: when the resolver is given an argument with no scheme or the file
\* scheme: if the path (the argument without a leading file://) is not an
\* existing file, the output is the "Invalid value for <LABEL> ... Path
\* <path> does not exist." message and nothing else, no notice is printed,
\* the validator is not called and the exit code is 0; if it exists, the
\* resolver returns the absolute path.
C8_BadPath ==
    \A t \in {"XML_FILE", "SCHEMA_FILE"} :
      (Len(argv) = 2 /\ res[t] # "none" /\ IsLocalKind(ArgOf(t))) =>
        LET p == StripPrefix(ArgOf(t)) IN
        IF Absolute(p) \notin fs
        THEN /\ res[t] = "raise"
             /\ Done
             /\ out = <<"Error: Invalid value for ", t, "\nPath ">> \o p
                      \o <<" does not exist.\n", "\n">>
             /\ NoticeCount = 0
             /\ outcome = "none"
             /\ exit_code = 0
        ELSE /\ res[t] = "return"
             /\ ValueOf(t) = Absolute(p)
             /\ StartsWithSlash(ValueOf(t))

\* C8, with the path as line 65 computes it: every "file://" of a file:
\* argument is removed, not only the leading one.
C8_BadPathReplaced ==
    \A t \in {"XML_FILE", "SCHEMA_FILE"} :
      (CliInvoked /\ res[t] # "none" /\ IsLocalKind(ArgOf(t))) =>
        LET p == IF UrlScheme(ArgOf(t)) = SchemeFile
                 THEN StripFileUri(ArgOf(t)) ELSE ArgOf(t) IN
        IF Absolute(p) \notin fs
        THEN /\ res[t] = "raise"
             /\ Done
             /\ out = <<"Error: Invalid value for ", t, "\nPath ">> \o p
                      \o <<" does not exist.\n", "\n">>
             /\ NoticeCount = 0
             /\ outcome = "none"
             /\ exit_code = 0
        ELSE /\ res[t] = "return"
             /\ ValueOf(t) = Absolute(p)

BadOpt == \E i \in 1..Len(opts) : opts[i] \notin {"-v", "--verbose", "--help"}

\* --help is on the command line
HelpOpt == \E i \in 1..Len(opts) : opts[i] = "--help"

Count(ev) == Cardinality({i \in DOMAIN log : log[i] = ev})

\* C10: the XML argument is resolved first, the schema argument only after
\* the XML argument resolved, the validator is called at most once and only
\* after both resolved; a failed resolution prints exactly one message,
\* is followed by no resolver or network call, and the validator is not
\* called.
C10_Order ==
    /\ cur = "XML_FILE" => res["SCHEMA_FILE"] = "none"
    /\ cur = "SCHEMA_FILE" => res["XML_FILE"] = "return"
    /\ res["SCHEMA_FILE"] # "none" => res["XML_FILE"] = "return"
    /\ Count("validate") <= 1
    /\ (Count("validate") = 1 \/ pc = "validate" \/ outcome # "none") =>
         (res["XML_FILE"] = "return" /\ res["SCHEMA_FILE"] = "return")
    /\ (\E t \in DOMAIN res : res[t] = "raise") =>
         /\ Done
         /\ Count("echo_error") = 1
         /\ log[Len(log)] = "echo_error"
         /\ Count("validate") = 0 /\ outcome = "none"
         /\ Cardinality({t \in DOMAIN res : res[t] = "raise"}) = 1
         /\ out # <<>> /\ NoticeCount = 0

C10_Witness ==
    /\ Done
    /\ Len(argv) = 2
    /\ argv[1] = HttpUrl /\ argv[2] = FtpUrl
    /\ res["XML_FILE"] = "return"
    /\ res["SCHEMA_FILE"] = "raise"
    /\ log = <<"GET", "ftp_connect", "ftp_login", "echo_error">>

====
